---- MODULE Spec2Model ----
(***************************************************************************)
(* Model of the wallet Service (package wallet): the in-memory wallet map, *)
(* the first-address index, the wallet directory on disk and the public    *)
(* operations of the Service, each taken as one step under the Service's   *)
(* RWMutex.                                                                *)
(***************************************************************************)
EXTENDS Integers, Sequences, FiniteSets, TLC

VARIABLES
    phase,             \* "new" before NewService ran, then "running" or "failed"
    disableWalletAPI,  \* Service.disableWalletAPI
    wallets,           \* Service.wallets: wallet id -> wallet (a Go map)
    firstAddrIDMap,    \* Service.firstAddrIDMap: first address -> wallet id
    disk,              \* wallet files of WalletDirectory: file name -> wallet
    bak,               \* ids whose legacy backup file <id>.bak exists
    fsTouched,         \* TRUE once any filesystem call was made
    res,               \* the last completed call and what it returned
    faults,            \* how many collaborator failures were injected so far
    lock,              \* holder of the exclusive lock, or NoProc
    calls              \* per caller: the CreateWallet call it has in flight

vars == <<phase, disableWalletAPI, wallets, firstAddrIDMap, disk, bak, fsTouched,
          res, faults, lock, calls>>

svars == <<wallets, firstAddrIDMap, disk, bak, fsTouched>>

----------------------------------------------------------------------------
(* Bounds of the model *)

MaxEntries == 2

MaxScan == 2

MaxEncLayers == 1

MaxFaults == 1

MaxNew == 3

Ids == {"a", "b"}

Seeds == {1, 2}

Labels == {"Your Wallet", "L"}

Procs == {"p1", "p2"}

NoProc == "none"

----------------------------------------------------------------------------
(* Go maps: functions whose domain is the key set *)

EmptyMap == [x \in {} |-> x]

MapPut(m, k, v) == [x \in (DOMAIN m) \cup {k} |-> IF x = k THEN v ELSE m[x]]

MapDel(m, k) == [x \in (DOMAIN m) \ {k} |-> m[x]]

SetMax(S) == CHOOSE x \in S : \A y \in S : y <= x

----------------------------------------------------------------------------
(* The Wallet type and the collaborators of the Service *)

Version == "0.2"

LegacyVersion == "0.1"

Blob(v, n) == [v |-> v, n |-> n]

EmptyBlob == Blob(0, 0)

\* The encryption primitive: one more layer of ciphertext around its input.
CipherEncrypt(b) == Blob(b.v, b.n + 1)

Entry(base, j) ==
    [Address |-> base + j, Secret |-> 100 + base + j, EncryptedSeckey |-> EmptyBlob]

NewWallet(wltName, seed, label) ==
    [Filename |-> wltName, Label |-> label, Version |-> Version,
     Seed |-> Blob(seed, 0), LastSeed |-> Blob(seed * 10, 0), Entries |-> << >>]

\* The wallet's encrypted flag: true iff the seed, the last-seed checkpoint and
\* every entry's secret are held as ciphertext.
IsEncrypted(w) ==
    /\ w.Seed.n > 0
    /\ w.LastSeed.n > 0
    /\ \A i \in 1..Len(w.Entries) : w.Entries[i].EncryptedSeckey.n > 0

\* Wallet.GenerateAddresses: derive num more entries from the last-seed
\* checkpoint; it cannot derive from a checkpoint that is ciphertext.
GenerateAddresses(w, num) ==
    IF w.LastSeed.n > 0
    THEN [w |-> w, addrs |-> << >>, err |-> "GenerateFailed"]
    ELSE LET base == w.LastSeed.v
             new  == [j \in 1..num |-> Entry(base, j)]
         IN [w |-> [w EXCEPT !.Entries = w.Entries \o new,
                             !.LastSeed = Blob(base + num, 0)],
             addrs |-> [j \in 1..num |-> base + j],
             err |-> "nil"]

\* Wallet.ScanAddresses: bal is the set of candidates (1..scanN, counted
\* from the current last entry) whose balance is strictly positive.
ScanAddresses(w, scanN, bal, bgFails) ==
    LET gen == GenerateAddresses(w, scanN)
        k   == Len(w.Entries)
        keep == IF bal = {} THEN 0 ELSE SetMax(bal)
    IN IF scanN = 0 THEN [w |-> w, err |-> "nil"]
       ELSE IF gen.err # "nil" THEN [w |-> w, err |-> gen.err]
       ELSE IF bgFails THEN [w |-> w, err |-> "BalanceFailed"]
       ELSE [w |-> [w EXCEPT !.Entries = SubSeq(gen.w.Entries, 1, k + keep),
                             !.LastSeed = Blob(w.LastSeed.v + keep, 0)],
             err |-> "nil"]

\* Wallet.GetAddresses
GetAddressesOf(w) == [i \in 1..Len(w.Entries) |-> w.Entries[i].Address]

\* A wallet file as an earlier run of the program left it.
WalletFile(wltName, seed, k, version) ==
    [GenerateAddresses(NewWallet(wltName, seed, "Your Wallet"), k).w
        EXCEPT !.Version = version]

St(ws, idx, dk, bk, fs) ==
    [wallets |-> ws, idx |-> idx, disk |-> dk, bak |-> bk, fs |-> fs]

NoRes ==
    [op |-> "none", id |-> "", err |-> "nil", dup |-> "", ret |-> << >>,
     seed |-> 0, n |-> 0, bal |-> {}, failAt |-> 0, order |-> << >>]

Out(st, r) == [st |-> st, res |-> r]

----------------------------------------------------------------------------
(* The Wallets map type *)

WalletsHas(ws, wltID) == wltID \in DOMAIN ws

\* Wallets.Get returns the stored wallet itself, not a copy: getWallet and
\* GetWallets clone what they get, and NewAddresses, Encrypt and
\* UpdateWalletLabel never put a wallet back.  A write to the wallet it
\* returns is a write to the map.
WalletsGet(ws, wltID) == ws[wltID]

WalletsWrite(ws, wltID, w) == MapPut(ws, wltID, w)

\* Wallets.Add: refuses a name that is already a key.
WalletsAddFails(ws, w) == w.Filename \in DOMAIN ws

WalletsAdd(ws, w) == MapPut(ws, w.Filename, w)

WalletsRemove(ws, wltID) == MapDel(ws, wltID)

WalletsSet(ws, w) == MapPut(ws, w.Filename, w)

\* The persistence gateway: Save writes one wallet file, LoadWallets reads
\* every wallet file of the directory.
Save(dk, w) == MapPut(dk, w.Filename, w)

LoadWallets(dk) == dk

----------------------------------------------------------------------------
(* Service.loadWallet and Service.CreateWallet *)

FirstAddr(w) == w.Entries[1].Address

IsDuplicateNever(idx, addr) == FALSE

\* loadWallet: the duplicate check on the first address
IsDuplicate(idx, addr) == addr \in DOMAIN idx

KeepAdded(ws, wltID) == ws

\* loadWallet: a failed save removes the wallet that was just added
RollbackAdd(ws, wltID) == WalletsRemove(ws, wltID)

RegisterAlone(idx, addr, wltID) == MapPut(EmptyMap, addr, wltID)

\* loadWallet: the first address is registered under the wallet's file name
RegisterFirstAddr(idx, addr, wltID) == MapPut(idx, addr, wltID)

loadWallet(st, wltName, seed, label, saveFails) ==
    LET r0    == [NoRes EXCEPT !.op = "CreateWallet", !.id = wltName, !.seed = seed]
        w     == GenerateAddresses(NewWallet(wltName, seed, label), 1).w
        addr  == FirstAddr(w)
        added == WalletsAdd(st.wallets, w)
    IN IF seed = 0
       THEN Out(st, [r0 EXCEPT !.err = "NewWalletFailed"])
       ELSE IF IsDuplicate(st.idx, addr)
       THEN Out(st, [r0 EXCEPT !.err = "Duplicate", !.dup = st.idx[addr]])
       ELSE IF WalletsAddFails(st.wallets, w)
       THEN Out(st, [r0 EXCEPT !.err = "AddFailed"])
       ELSE IF saveFails
       THEN Out([st EXCEPT !.wallets = RollbackAdd(added, w.Filename), !.fs = TRUE],
                [r0 EXCEPT !.err = "SaveFailed"])
       ELSE Out([st EXCEPT !.wallets = added,
                           !.disk = Save(st.disk, w),
                           !.idx = RegisterFirstAddr(st.idx, addr, w.Filename),
                           !.fs = TRUE],
                [r0 EXCEPT !.ret = <<w>>])

\* generateUniqueWalletFilename: any name that is not a key of wallets
UniqueWalletFilenames(ws, names) == names \ DOMAIN ws

\* CreateWallet(wltName, options); gen is the name generateUniqueWalletFilename
\* returns when wltName is empty.
CreateWalletOp(st, disabled, wltName, gen, seed, label, saveFails) ==
    IF disabled
    THEN Out(st, [NoRes EXCEPT !.op = "CreateWallet", !.id = wltName,
                               !.seed = seed, !.err = "ApiDisabled"])
    ELSE loadWallet(st, IF wltName = "" THEN gen ELSE wltName, seed, label, saveFails)

----------------------------------------------------------------------------
(* Service.removeDup *)

KeepLater(pwLen, wltLen) == pwLen > wltLen

\* removeDup: the wallet seen before is kept when it has at least as many entries
KeepPrevious(pwLen, wltLen) == pwLen >= wltLen

RECURSIVE removeDupLoop(_, _, _, _, _)
\* the loop over wlts, in the order the map iteration yields the keys
removeDupLoop(wlts, order, i, idx, rmWltIDS) ==
    IF i > Len(order) THEN [idx |-> idx, rmWltIDS |-> rmWltIDS]
    ELSE LET wltID == order[i]
             wlt   == wlts[wltID]
         IN IF Len(wlt.Entries) = 0
            THEN removeDupLoop(wlts, order, i + 1, idx, Append(rmWltIDS, wltID))
            ELSE LET addr == FirstAddr(wlt)
                 IN IF addr \in DOMAIN idx
                    THEN LET id == idx[addr]
                             pw == wlts[id]
                         IN IF KeepPrevious(Len(pw.Entries), Len(wlt.Entries))
                            THEN removeDupLoop(wlts, order, i + 1, idx,
                                               Append(rmWltIDS, wltID))
                            ELSE removeDupLoop(wlts, order, i + 1,
                                               MapPut(idx, addr, wltID),
                                               Append(rmWltIDS, id))
                    ELSE removeDupLoop(wlts, order, i + 1,
                                       MapPut(idx, addr, wltID), rmWltIDS)

RemoveNone(wlts, rmWltIDS) == wlts

\* removeDup: the second loop removes every recorded id
RemoveMarked(wlts, rmWltIDS) ==
    [x \in (DOMAIN wlts) \ {rmWltIDS[j] : j \in 1..Len(rmWltIDS)} |-> wlts[x]]

removeDup(wlts, idx, order) ==
    LET r == removeDupLoop(wlts, order, 1, idx, << >>)
    IN [wallets |-> RemoveMarked(wlts, r.rmWltIDS), idx |-> r.idx]

\* The iteration orders of a Go map: every permutation of its keys
Orders(m) ==
    {o \in [1..Cardinality(DOMAIN m) -> DOMAIN m] :
        \A i, j \in 1..Cardinality(DOMAIN m) : i # j => o[i] # o[j]}

----------------------------------------------------------------------------
(* Service.getWallet, Service.ScanAheadWalletAddresses *)

ReturnsNil(st, r0) == Out(st, r0)

\* the return taken when wallets.Get finds no wallet of the given id
ErrWalletNotExist(st, r0) == Out(st, [r0 EXCEPT !.err = "NotFound"])

\* getWallet: a clone of the stored wallet (a value, so the same record)
getWallet(ws, wltID) == WalletsGet(ws, wltID)

ScanSaveFailedStores(st, w) == [st EXCEPT !.wallets = WalletsSet(st.wallets, w), !.fs = TRUE]

\* ScanAheadWalletAddresses: a failed save returns before wallets.set
ScanSaveFailed(st, w) == [st EXCEPT !.fs = TRUE]

ScanAheadOp(st, wltName, scanN, bal, bgFails, saveFails) ==
    \* res.bal: the probed candidates that were found to have a positive balance
    LET r0 == [NoRes EXCEPT !.op = "ScanAheadWalletAddresses", !.id = wltName,
                            !.n = scanN, !.bal = bal]
    IN IF ~WalletsHas(st.wallets, wltName)
       THEN ErrWalletNotExist(st, r0)
       ELSE LET sc == ScanAddresses(getWallet(st.wallets, wltName), scanN, bal, bgFails)
            IN IF sc.err # "nil"
               THEN Out(st, [r0 EXCEPT !.err = sc.err, !.bal = {}])
               ELSE IF saveFails
               THEN Out(ScanSaveFailed(st, sc.w), [r0 EXCEPT !.err = "SaveFailed"])
               ELSE Out([st EXCEPT !.disk = Save(st.disk, sc.w),
                                   !.wallets = WalletsSet(st.wallets, sc.w),
                                   !.fs = TRUE],
                        [r0 EXCEPT !.ret = <<sc.w>>])

----------------------------------------------------------------------------
(* Service.Encrypt: w is the stored wallet itself, every write to w is a   *)
(* write to the wallet in serv.wallets                                     *)

EncryptEntriesKeepSecret(entries, upto) ==
    [i \in 1..Len(entries) |->
        IF i <= upto
        THEN [entries[i] EXCEPT !.EncryptedSeckey = CipherEncrypt(Blob(entries[i].Secret, 0))]
        ELSE entries[i]]

\* the loop over w.Entries, run for the first upto entries
EncryptEntries(entries, upto) ==
    [i \in 1..Len(entries) |->
        IF i <= upto
        THEN [entries[i] EXCEPT !.EncryptedSeckey = CipherEncrypt(Blob(entries[i].Secret, 0)),
                                !.Secret = 0]
        ELSE entries[i]]

\* failAt: 0 no Encrypt call fails, 1 the call on the seed fails, 2 the call
\* on lastSeed fails, 2+i the call on entry i fails.
EncryptOp(st, wltID, failAt, saveFails, removeFails) ==
    LET r0 == [NoRes EXCEPT !.op = "Encrypt", !.id = wltID, !.failAt = failAt]
    IN IF ~WalletsHas(st.wallets, wltID)
       THEN ErrWalletNotExist(st, r0)
       ELSE
       LET w0 == WalletsGet(st.wallets, wltID)
           oldVersion == w0.Version
           w1 == [w0 EXCEPT !.Version = Version]
           w2 == [w1 EXCEPT !.Seed = CipherEncrypt(w1.Seed)]
           w3 == [w2 EXCEPT !.LastSeed = CipherEncrypt(w2.LastSeed)]
           w4 == [w3 EXCEPT !.Entries = EncryptEntries(w3.Entries, Len(w3.Entries))]
           stored(w) == [st EXCEPT !.wallets = WalletsWrite(st.wallets, wltID, w)]
           failed(w) == Out(stored(w), [r0 EXCEPT !.err = "EncryptFailed"])
       IN IF failAt = 1 THEN failed(w1)
          ELSE IF failAt = 2 THEN failed(w2)
          ELSE IF failAt > 2
          THEN failed([w3 EXCEPT !.Entries = EncryptEntries(w3.Entries, failAt - 3)])
          ELSE IF saveFails
          THEN Out([stored(w4) EXCEPT !.fs = TRUE], [r0 EXCEPT !.err = "SaveFailed"])
          ELSE LET saved == [stored(w4) EXCEPT !.disk = Save(st.disk, w4), !.fs = TRUE]
               IN IF oldVersion = LegacyVersion /\ wltID \in st.bak
                  THEN IF removeFails
                       THEN Out(saved, [r0 EXCEPT !.err = "RemoveFailed"])
                       ELSE Out([saved EXCEPT !.bak = st.bak \ {wltID}],
                                [r0 EXCEPT !.ret = <<w4>>])
                  ELSE Out(saved, [r0 EXCEPT !.ret = <<w4>>])

----------------------------------------------------------------------------
(* Service.NewAddresses, Service.UpdateWalletLabel, Service.Remove: they   *)
(* too write through the stored wallet                                     *)

ReturnAllAddrs(gen) == GetAddressesOf(gen.w)

\* NewAddresses returns the addresses GenerateAddresses handed back
ReturnAddrs(gen) == gen.addrs

NewAddressesOp(st, wltID, num, saveFails) ==
    LET r0 == [NoRes EXCEPT !.op = "NewAddresses", !.id = wltID, !.n = num]
    IN IF ~WalletsHas(st.wallets, wltID)
       THEN ErrWalletNotExist(st, r0)
       ELSE LET gen == GenerateAddresses(WalletsGet(st.wallets, wltID), num)
                mem == [st EXCEPT !.wallets = WalletsWrite(st.wallets, wltID, gen.w)]
            IN IF gen.err # "nil"
               THEN Out(st, [r0 EXCEPT !.err = gen.err])
               ELSE IF saveFails
               THEN Out([mem EXCEPT !.fs = TRUE], [r0 EXCEPT !.err = "SaveFailed"])
               ELSE Out([mem EXCEPT !.disk = Save(st.disk, gen.w), !.fs = TRUE],
                        [r0 EXCEPT !.ret = ReturnAddrs(gen)])

UpdateWalletLabelOp(st, wltID, label, saveFails) ==
    LET r0 == [NoRes EXCEPT !.op = "UpdateWalletLabel", !.id = wltID]
    IN IF ~WalletsHas(st.wallets, wltID)
       THEN ErrWalletNotExist(st, r0)
       ELSE LET wlt == [WalletsGet(st.wallets, wltID) EXCEPT !.Label = label]
                mem == [st EXCEPT !.wallets = WalletsWrite(st.wallets, wltID, wlt), !.fs = TRUE]
            IN IF saveFails
               THEN Out(mem, [r0 EXCEPT !.err = "SaveFailed"])
               ELSE Out([mem EXCEPT !.disk = Save(st.disk, wlt)], r0)

RemoveAndUnregister(st, wltID) ==
    Out([st EXCEPT !.wallets = WalletsRemove(st.wallets, wltID),
                   !.idx = [a \in {x \in DOMAIN st.idx : st.idx[x] # wltID} |-> st.idx[a]]],
        [NoRes EXCEPT !.op = "Remove", !.id = wltID])

RemoveOp(st, wltID) ==
    Out([st EXCEPT !.wallets = WalletsRemove(st.wallets, wltID)],
        [NoRes EXCEPT !.op = "Remove", !.id = wltID])

----------------------------------------------------------------------------
(* Service.ReloadWallets and NewService *)

KeptIndex(idx) == idx

\* ReloadWallets: serv.firstAddrIDMap = make(map[string]string)
FreshIndex(idx) == EmptyMap

ReloadWalletsOp(st, disabled, order, loadFails) ==
    LET r0 == [NoRes EXCEPT !.op = "ReloadWallets", !.order = order]
    IN IF disabled
       THEN Out(st, [r0 EXCEPT !.err = "ApiDisabled", !.order = << >>])
       ELSE IF loadFails
       THEN Out([st EXCEPT !.fs = TRUE], [r0 EXCEPT !.err = "LoadFailed", !.order = << >>])
       ELSE LET d == removeDup(LoadWallets(st.disk), FreshIndex(st.idx), order)
            IN Out([st EXCEPT !.wallets = d.wallets, !.idx = d.idx, !.fs = TRUE], r0)

NoWalletsNever(ws) == FALSE

\* NewService: len(serv.wallets) == 0 after removeDup
NoWallets(ws) == DOMAIN ws = {}

\* NewService(walletDir, disableWalletAPI); ok tells whether a Service is returned.
NewServiceOp(st, disabled, mkdirFails, loadFails, order, gen, seed, saveFails, save2Fails) ==
    LET r0 == [NoRes EXCEPT !.op = "NewService", !.order = order]
        touched == [st EXCEPT !.fs = TRUE]
    IN IF disabled
       THEN [ok |-> TRUE, st |-> st, res |-> [r0 EXCEPT !.order = << >>]]
       ELSE IF mkdirFails
       THEN [ok |-> FALSE, st |-> touched,
             res |-> [r0 EXCEPT !.err = "MkdirFailed", !.order = << >>]]
       ELSE IF loadFails
       THEN [ok |-> FALSE, st |-> touched,
             res |-> [r0 EXCEPT !.err = "LoadFailed", !.order = << >>]]
       ELSE LET d  == removeDup(LoadWallets(st.disk), st.idx, order)
                s1 == [touched EXCEPT !.wallets = d.wallets, !.idx = d.idx]
            IN IF ~NoWallets(s1.wallets)
               THEN [ok |-> TRUE, st |-> s1, res |-> r0]
               ELSE LET c == CreateWalletOp(s1, FALSE, "", gen, seed, "Your Wallet", saveFails)
                        r1 == [r0 EXCEPT !.id = c.res.id, !.seed = seed, !.ret = c.res.ret]
                    IN IF c.res.err # "nil"
                       THEN [ok |-> FALSE, st |-> c.st, res |-> [r1 EXCEPT !.err = c.res.err]]
                       ELSE IF save2Fails
                       THEN [ok |-> FALSE, st |-> c.st, res |-> [r1 EXCEPT !.err = "SaveFailed"]]
                       ELSE [ok |-> TRUE, res |-> r1,
                             st |-> [c.st EXCEPT !.disk = Save(c.st.disk, c.res.ret[1])]]

----------------------------------------------------------------------------
(* The read operations *)

GetWalletOp(st, wltID) ==
    LET r0 == [NoRes EXCEPT !.op = "GetWallet", !.id = wltID]
    IN IF ~WalletsHas(st.wallets, wltID)
       THEN ErrWalletNotExist(st, r0)
       ELSE Out(st, [r0 EXCEPT !.ret = <<getWallet(st.wallets, wltID)>>])

GetAddressesOp(st, wltID) ==
    LET r0 == [NoRes EXCEPT !.op = "GetAddresses", !.id = wltID]
    IN IF ~WalletsHas(st.wallets, wltID)
       THEN ErrWalletNotExist(st, r0)
       ELSE Out(st, [r0 EXCEPT !.ret = GetAddressesOf(WalletsGet(st.wallets, wltID))])

CreateAndSignTransactionOp(st, wltID, txFails) ==
    LET r0 == [NoRes EXCEPT !.op = "CreateAndSignTransaction", !.id = wltID]
    IN IF ~WalletsHas(st.wallets, wltID)
       THEN ErrWalletNotExist(st, r0)
       ELSE Out(st, [r0 EXCEPT !.err = IF txFails THEN "TransactionFailed" ELSE "nil"])

\* GetWallets: a clone of every stored wallet
GetWallets(ws) == [k \in DOMAIN ws |-> getWallet(ws, k)]

----------------------------------------------------------------------------
(* Initial states: the wallet directory as earlier runs left it *)

DirOf(files) ==
    [x \in {w.Filename : w \in files} |-> CHOOSE w \in files : w.Filename = x]

InitialDirs ==
    { [disk |-> EmptyMap, bak |-> {}],
      [disk |-> DirOf({WalletFile("a", 1, 1, Version), WalletFile("b", 1, 2, Version)}),
       bak |-> {}],
      [disk |-> DirOf({WalletFile("a", 1, 0, Version),
                       WalletFile("b", 2, 1, LegacyVersion)}),
       bak |-> {"b"}] }

NoOut == Out(St(EmptyMap, EmptyMap, EmptyMap, {}, FALSE), NoRes)

\* A caller's call: the operation and its arguments, where the call stands
\* (st), and in loc what the handler still has to write and to return.
IdleCall ==
    [st |-> "idle", op |-> "", name |-> "", seed |-> 0, n0 |-> 0, conc |-> FALSE,
     fresh |-> FALSE, res |-> NoRes, loc |-> NoOut]

Init ==
    /\ phase = "new"
    /\ disableWalletAPI = FALSE
    /\ wallets = EmptyMap
    /\ firstAddrIDMap = EmptyMap
    /\ \E d \in InitialDirs : disk = d.disk /\ bak = d.bak
    /\ fsTouched = FALSE
    /\ res = NoRes
    /\ faults = 0
    /\ lock = NoProc
    /\ calls = [p \in Procs |-> IdleCall]

----------------------------------------------------------------------------
(* The operations as steps of the Service *)

\* The errors that come from a collaborator failing (the persistence gateway,
\* the encryption primitive, the balance lookup, the filesystem)
FaultErrs ==
    {"SaveFailed", "EncryptFailed", "LoadFailed", "BalanceFailed", "RemoveFailed",
     "MkdirFailed", "TransactionFailed"}

Cur == St(wallets, firstAddrIDMap, disk, bak, fsTouched)

Apply(o) ==
    /\ wallets' = o.st.wallets
    /\ firstAddrIDMap' = o.st.idx
    /\ disk' = o.st.disk
    /\ bak' = o.st.bak
    /\ fsTouched' = o.st.fs
    /\ res' = o.res
    /\ faults' = faults + (IF o.res.err \in FaultErrs THEN 1 ELSE 0)
    /\ faults' <= MaxFaults

\* A call starts when the Service exists, no call holds the lock and the
\* previous call has returned to its caller.
Running == phase = "running" /\ lock = NoProc /\ res.op = "none"

Frame == UNCHANGED <<phase, disableWalletAPI, lock, calls>>

NewService ==
    /\ phase = "new"
    /\ \E disabled, mkdirFails, loadFails, saveFails, save2Fails \in BOOLEAN :
       \E order \in Orders(disk), gen \in UniqueWalletFilenames(EmptyMap, Ids),
          seed \in Seeds :
          LET o == NewServiceOp(Cur, disabled, mkdirFails, loadFails, order, gen, seed,
                                saveFails, save2Fails)
          IN /\ phase' = IF o.ok THEN "running" ELSE "failed"
             /\ disableWalletAPI' = disabled
             /\ Apply(o)
    /\ UNCHANGED <<lock, calls>>

CreateWallet ==
    /\ Running
    /\ \E wltName \in Ids \cup {""}, gen \in Ids, seed \in Seeds \cup {0},
          label \in Labels, saveFails \in BOOLEAN :
          /\ wltName = "" => gen \in UniqueWalletFilenames(wallets, Ids)
          /\ wltName # "" => gen = wltName
          /\ Apply(CreateWalletOp(Cur, disableWalletAPI, wltName, gen, seed, label, saveFails))
    /\ Frame

ScanAheadWalletAddresses ==
    /\ Running
    /\ \E wltName \in Ids, scanN \in 0..MaxScan, bgFails, saveFails \in BOOLEAN :
       \E bal \in SUBSET (1..scanN) :
          /\ WalletsHas(wallets, wltName) =>
                Len(wallets[wltName].Entries) + SetMax(bal \cup {0}) <= MaxEntries
          /\ Apply(ScanAheadOp(Cur, wltName, scanN, bal, bgFails, saveFails))
    /\ Frame

Encrypt ==
    /\ Running
    /\ \E wltID \in Ids, saveFails, removeFails \in BOOLEAN :
       \E failAt \in 0..(IF WalletsHas(wallets, wltID)
                         THEN 2 + Len(wallets[wltID].Entries) ELSE 0) :
          /\ WalletsHas(wallets, wltID) => wallets[wltID].Seed.n < MaxEncLayers
          /\ Apply(EncryptOp(Cur, wltID, failAt, saveFails, removeFails))
    /\ Frame

NewAddresses ==
    /\ Running
    /\ \E wltID \in Ids, num \in 0..MaxEntries, saveFails \in BOOLEAN :
          /\ WalletsHas(wallets, wltID) =>
                Len(wallets[wltID].Entries) + num <= MaxEntries
          /\ Apply(NewAddressesOp(Cur, wltID, num, saveFails))
    /\ Frame

UpdateWalletLabel ==
    /\ Running
    /\ \E wltID \in Ids, label \in Labels, saveFails \in BOOLEAN :
          Apply(UpdateWalletLabelOp(Cur, wltID, label, saveFails))
    /\ Frame

Remove ==
    /\ Running
    /\ \E wltID \in Ids : Apply(RemoveOp(Cur, wltID))
    /\ Frame

ReloadWallets ==
    /\ Running
    /\ \E order \in Orders(disk), loadFails \in BOOLEAN :
          Apply(ReloadWalletsOp(Cur, disableWalletAPI, order, loadFails))
    /\ Frame

GetWallet ==
    /\ Running
    /\ \E wltID \in Ids : Apply(GetWalletOp(Cur, wltID))
    /\ Frame

GetAddresses ==
    /\ Running
    /\ \E wltID \in Ids : Apply(GetAddressesOp(Cur, wltID))
    /\ Frame

CreateAndSignTransaction ==
    /\ Running
    /\ \E wltID \in Ids, txFails \in BOOLEAN :
          Apply(CreateAndSignTransactionOp(Cur, wltID, txFails))
    /\ Frame

\* The last call's result is handed to its caller.
Return ==
    /\ res.op # "none"
    /\ phase = "running"
    /\ res' = NoRes
    /\ UNCHANGED <<phase, disableWalletAPI, wallets, firstAddrIDMap, disk, bak,
                   fsTouched, faults, lock, calls>>

Next ==
    \/ NewService
    \/ CreateWallet
    \/ ScanAheadWalletAddresses
    \/ Encrypt
    \/ NewAddresses
    \/ UpdateWalletLabel
    \/ Remove
    \/ ReloadWallets
    \/ Return

Spec == Init /\ [][Next]_vars

----------------------------------------------------------------------------
(* Concurrent callers of CreateWallet: each caller issues one call, takes   *)
(* the exclusive lock (serv.Lock), runs the body and releases the lock on  *)
(* return (defer serv.Unlock)                                              *)

ConcIds == Ids \cup {"c"}

ConcSeeds == Seeds \cup {3}

Others(p) == Procs \ {p}

CallCreateWallet(p) ==
    /\ phase = "running"
    /\ calls[p].st = "idle"
    /\ \E wltName \in ConcIds \cup {""}, seed \in ConcSeeds :
          calls' = [calls EXCEPT ![p] =
                       [st |-> "called", op |-> "CreateWallet", name |-> wltName,
                        seed |-> seed, n0 |-> Cardinality(DOMAIN firstAddrIDMap),
                        conc |-> FALSE, fresh |-> FALSE, res |-> NoRes, loc |-> NoOut]]
    /\ UNCHANGED <<phase, disableWalletAPI, wallets, firstAddrIDMap, disk, bak,
                   fsTouched, res, faults, lock>>

LockCreateWallet(p) ==
    /\ calls[p].st = "called"
    /\ lock = NoProc
    /\ lock' = p
    /\ calls' = [calls EXCEPT ![p].st = "locked",
                              ![p].conc = \E q \in Others(p) : calls[q].st = "called"]
    /\ UNCHANGED <<phase, disableWalletAPI, wallets, firstAddrIDMap, disk, bak,
                   fsTouched, res, faults>>

BodyCreateWallet(p) ==
    /\ calls[p].st = "locked"
    /\ lock = p
    /\ \E gen \in ConcIds, saveFails \in BOOLEAN :
          /\ calls[p].name = "" => gen \in UniqueWalletFilenames(wallets, ConcIds)
          /\ calls[p].name # "" => gen = calls[p].name
          /\ LET o == CreateWalletOp(Cur, disableWalletAPI, calls[p].name, gen,
                                     calls[p].seed, "L", saveFails)
             IN /\ Apply(o)
                /\ calls' = [calls EXCEPT ![p].st = "returned", ![p].res = o.res]
    /\ lock' = NoProc
    /\ UNCHANGED <<phase, disableWalletAPI>>

NextConc ==
    \/ NewService
    \/ \E p \in Procs : CallCreateWallet(p)
    \/ \E p \in Procs : LockCreateWallet(p)
    \/ \E p \in Procs : BodyCreateWallet(p)

SpecConc == Init /\ [][NextConc]_vars

----------------------------------------------------------------------------
(* The Deduplication Pass over every small wallet directory *)

DedupIds == Ids \cup {"c"}

DedupFiles(id) ==
    {WalletFile(id, seed, k, Version) : seed \in Seeds, k \in 0..MaxEntries}

DedupDirs == {DirOf({fa, fb, fc}) : fa \in DedupFiles("a"), fb \in DedupFiles("b"),
                                    fc \in DedupFiles("c")}

InitDedup ==
    /\ phase = "new"
    /\ disableWalletAPI = FALSE
    /\ wallets = EmptyMap
    /\ firstAddrIDMap = EmptyMap
    /\ disk \in DedupDirs \cup {EmptyMap}
    /\ bak = {}
    /\ fsTouched = FALSE
    /\ res = NoRes
    /\ faults = 0
    /\ lock = NoProc
    /\ calls = [p \in Procs |-> IdleCall]

NextDedup ==
    \/ NewService
    \/ ReloadWallets
    \/ Remove
    \/ Return

SpecDedup == InitDedup /\ [][NextDedup]_vars

----------------------------------------------------------------------------
(* NewAddresses and GetAddresses on wallets that grow by up to MaxNew       *)
(* addresses in one call                                                    *)

NewAddressesLong ==
    /\ Running
    /\ \E wltID \in Ids, num \in 0..MaxNew, saveFails \in BOOLEAN :
          /\ WalletsHas(wallets, wltID) =>
                Len(wallets[wltID].Entries) + num <= 1 + MaxNew
          /\ Apply(NewAddressesOp(Cur, wltID, num, saveFails))
    /\ Frame

NextAddr ==
    \/ NewService
    \/ NewAddressesLong
    \/ GetAddresses
    \/ Return

SpecAddr == Init /\ [][NextAddr]_vars

----------------------------------------------------------------------------
(* The locking discipline.  Each caller issues one call of any operation.   *)
(* A mutating handler takes the exclusive lock (serv.Lock), makes its first *)
(* write, then its remaining writes, and unlocks on return (defer           *)
(* serv.Unlock).  A reading handler takes the shared lock (serv.RLock),     *)
(* reads, and unlocks on return (defer serv.RUnlock).                       *)

WriteOps ==
    {"CreateWallet", "ScanAheadWalletAddresses", "Encrypt", "NewAddresses",
     "UpdateWalletLabel", "Remove", "ReloadWallets"}

ReadOps == {"GetWallet", "GetWallets", "GetAddresses", "CreateAndSignTransaction"}

\* The callers that hold the shared lock
Readers == {p \in Procs : calls[p].st \in {"rlocked", "read"}}

\* The callers whose handler is past taking its lock and has not returned
InBody(p) == calls[p].st \in {"locked", "written", "rlocked", "read"}

InExclusive(p) == calls[p].st \in {"locked", "written"}

LockAlways(p) == TRUE

\* serv.Lock() returns when no caller holds the lock in either form
CanLock(p) == lock = NoProc /\ Readers = {}

RLockAlways(p) == TRUE

\* serv.RLock() returns when no caller holds the exclusive lock
CanRLock(p) == lock = NoProc

Call(p) ==
    /\ phase = "running"
    /\ calls[p].st = "idle"
    /\ \E op \in WriteOps \cup ReadOps, wltID \in ConcIds, seed \in Seeds :
          /\ op # "CreateWallet" => (seed = 1 /\ wltID \in Ids)
          /\ op \in {"ReloadWallets", "GetWallets"} => wltID = "a"
          \* fresh: the seed's first address is not in the index at the call
          /\ calls' = [calls EXCEPT ![p] =
                         [IdleCall EXCEPT
                            !.st = "called", !.op = op, !.name = wltID, !.seed = seed,
                            !.fresh = /\ op = "CreateWallet"
                                      /\ ~IsDuplicate(firstAddrIDMap,
                                            FirstAddr(GenerateAddresses(
                                               NewWallet(wltID, seed, ""), 1).w))]]
    /\ UNCHANGED <<phase, disableWalletAPI, wallets, firstAddrIDMap, disk, bak,
                   fsTouched, res, faults, lock>>

Lock(p) ==
    /\ calls[p].st = "called" /\ calls[p].op \in WriteOps
    /\ CanLock(p)
    /\ lock' = p
    \* conc: another caller is waiting for the lock
    /\ calls' = [calls EXCEPT ![p].st = "locked",
                              ![p].conc = \E q \in Others(p) : calls[q].st = "called"]
    /\ UNCHANGED <<phase, disableWalletAPI, wallets, firstAddrIDMap, disk, bak,
                   fsTouched, res, faults>>

RLock(p) ==
    /\ calls[p].st = "called" /\ calls[p].op \in ReadOps
    /\ CanRLock(p)
    /\ calls' = [calls EXCEPT ![p].st = "rlocked"]
    /\ UNCHANGED <<phase, disableWalletAPI, wallets, firstAddrIDMap, disk, bak,
                   fsTouched, res, faults, lock>>

\* The first write of a mutating handler: the registry goes to m, the state
\* after that write, and the handler keeps in loc the outcome o it goes on to.
FirstWrite(p, o, m) ==
    /\ calls[p].st = "locked"
    /\ faults' = faults + (IF o.res.err \in FaultErrs THEN 1 ELSE 0)
    /\ faults' <= MaxFaults
    /\ wallets' = m.wallets /\ firstAddrIDMap' = m.idx
    /\ disk' = m.disk /\ bak' = m.bak /\ fsTouched' = m.fs
    /\ calls' = [calls EXCEPT ![p].st = "written", ![p].loc = o]
    /\ UNCHANGED <<phase, disableWalletAPI, res, lock>>

\* CreateWallet: the first write is wallets.Add
WriteCreateWallet(p) ==
    /\ calls[p].op = "CreateWallet"
    /\ \E saveFails \in BOOLEAN :
          LET c == calls[p]
              o == CreateWalletOp(Cur, disableWalletAPI, c.name, c.name, c.seed, "L", saveFails)
              w == GenerateAddresses(NewWallet(c.name, c.seed, "L"), 1).w
          IN FirstWrite(p, o, IF o.res.err \in {"nil", "SaveFailed"}
                              THEN [Cur EXCEPT !.wallets = WalletsAdd(wallets, w)]
                              ELSE Cur)

\* ScanAheadWalletAddresses: the first write is Save
WriteScanAheadWalletAddresses(p) ==
    /\ calls[p].op = "ScanAheadWalletAddresses"
    /\ \E scanN \in 0..MaxScan, bgFails, saveFails \in BOOLEAN :
       \E bal \in SUBSET (1..scanN) :
          /\ WalletsHas(wallets, calls[p].name) =>
                Len(wallets[calls[p].name].Entries) + SetMax(bal \cup {0}) <= MaxEntries
          /\ LET o == ScanAheadOp(Cur, calls[p].name, scanN, bal, bgFails, saveFails)
             IN FirstWrite(p, o, IF o.res.err = "nil"
                                 THEN [Cur EXCEPT !.disk = o.st.disk, !.fs = TRUE]
                                 ELSE Cur)

\* Encrypt: the first write is w.setVersion
WriteEncrypt(p) ==
    /\ calls[p].op = "Encrypt"
    /\ LET wltID == calls[p].name
       IN \E saveFails, removeFails \in BOOLEAN :
          \E failAt \in 0..(IF WalletsHas(wallets, wltID)
                            THEN 2 + Len(wallets[wltID].Entries) ELSE 0) :
             /\ WalletsHas(wallets, wltID) => wallets[wltID].Seed.n < MaxEncLayers
             /\ LET o == EncryptOp(Cur, wltID, failAt, saveFails, removeFails)
                IN FirstWrite(p, o,
                      IF WalletsHas(wallets, wltID)
                      THEN [Cur EXCEPT !.wallets = WalletsWrite(wallets, wltID,
                               [WalletsGet(wallets, wltID) EXCEPT !.Version = Version])]
                      ELSE Cur)

\* NewAddresses: the first write is w.GenerateAddresses on the stored wallet
WriteNewAddresses(p) ==
    /\ calls[p].op = "NewAddresses"
    /\ \E num \in 0..MaxEntries, saveFails \in BOOLEAN :
          /\ WalletsHas(wallets, calls[p].name) =>
                Len(wallets[calls[p].name].Entries) + num <= MaxEntries
          /\ LET o == NewAddressesOp(Cur, calls[p].name, num, saveFails)
             IN FirstWrite(p, o, IF o.res.err \in {"nil", "SaveFailed"}
                                 THEN [Cur EXCEPT !.wallets = o.st.wallets]
                                 ELSE Cur)

\* UpdateWalletLabel: the first write is w.setLabel on the stored wallet
WriteUpdateWalletLabel(p) ==
    /\ calls[p].op = "UpdateWalletLabel"
    /\ \E label \in Labels, saveFails \in BOOLEAN :
          LET o == UpdateWalletLabelOp(Cur, calls[p].name, label, saveFails)
          IN FirstWrite(p, o, IF o.res.err \in {"nil", "SaveFailed"}
                              THEN [Cur EXCEPT !.wallets = o.st.wallets]
                              ELSE Cur)

\* Remove: its one write is wallets.Remove
WriteRemove(p) ==
    /\ calls[p].op = "Remove"
    /\ LET o == RemoveOp(Cur, calls[p].name) IN FirstWrite(p, o, o.st)

\* ReloadWallets: the first write is the reset of firstAddrIDMap
WriteReloadWallets(p) ==
    /\ calls[p].op = "ReloadWallets"
    /\ \E order \in Orders(disk), loadFails \in BOOLEAN :
          LET o == ReloadWalletsOp(Cur, disableWalletAPI, order, loadFails)
          IN FirstWrite(p, o, IF o.res.err = "nil"
                              THEN [Cur EXCEPT !.idx = FreshIndex(firstAddrIDMap), !.fs = TRUE]
                              ELSE Cur)

\* The remaining writes of a mutating handler, its return and the deferred
\* serv.Unlock()
Finish(p) ==
    /\ calls[p].st = "written"
    /\ wallets' = calls[p].loc.st.wallets /\ firstAddrIDMap' = calls[p].loc.st.idx
    /\ disk' = calls[p].loc.st.disk /\ bak' = calls[p].loc.st.bak
    /\ fsTouched' = calls[p].loc.st.fs
    /\ res' = calls[p].loc.res
    /\ calls' = [calls EXCEPT ![p].st = "returned", ![p].res = calls[p].loc.res,
                              ![p].loc = NoOut]
    /\ lock' = NoProc
    /\ UNCHANGED <<phase, disableWalletAPI, faults>>

\* What a reading handler reads under the shared lock
ReadOutcome(op, st, wltID, txFails) ==
    CASE op = "GetWallet" -> GetWalletOp(st, wltID)
      [] op = "GetAddresses" -> GetAddressesOp(st, wltID)
      [] op = "CreateAndSignTransaction" -> CreateAndSignTransactionOp(st, wltID, txFails)
      [] op = "GetWallets" ->
            Out(st, [NoRes EXCEPT !.op = "GetWallets", !.ret = <<GetWallets(st.wallets)>>])

Read(p) ==
    /\ calls[p].st = "rlocked"
    /\ \E txFails \in BOOLEAN :
          /\ calls[p].op # "CreateAndSignTransaction" => ~txFails
          /\ LET o == ReadOutcome(calls[p].op, Cur, calls[p].name, txFails)
             IN /\ faults' = faults + (IF o.res.err \in FaultErrs THEN 1 ELSE 0)
                /\ faults' <= MaxFaults
                /\ calls' = [calls EXCEPT ![p].st = "read", ![p].loc = o]
    /\ UNCHANGED <<phase, disableWalletAPI, wallets, firstAddrIDMap, disk, bak,
                   fsTouched, res, lock>>

\* The return of a reading handler and the deferred serv.RUnlock()
RUnlock(p) ==
    /\ calls[p].st = "read"
    /\ res' = calls[p].loc.res
    /\ calls' = [calls EXCEPT ![p].st = "returned", ![p].res = calls[p].loc.res,
                              ![p].loc = NoOut]
    /\ UNCHANGED <<phase, disableWalletAPI, wallets, firstAddrIDMap, disk, bak,
                   fsTouched, faults, lock>>

NextLock ==
    \/ NewService
    \/ \E p \in Procs : Call(p)
    \/ \E p \in Procs : Lock(p)
    \/ \E p \in Procs : RLock(p)
    \/ \E p \in Procs : WriteCreateWallet(p)
    \/ \E p \in Procs : WriteScanAheadWalletAddresses(p)
    \/ \E p \in Procs : WriteEncrypt(p)
    \/ \E p \in Procs : WriteNewAddresses(p)
    \/ \E p \in Procs : WriteUpdateWalletLabel(p)
    \/ \E p \in Procs : WriteRemove(p)
    \/ \E p \in Procs : WriteReloadWallets(p)
    \/ \E p \in Procs : Finish(p)
    \/ \E p \in Procs : Read(p)
    \/ \E p \in Procs : RUnlock(p)

SpecLock == Init /\ [][NextLock]_vars

----------------------------------------------------------------------------
(* The operations that take a wallet id, reads included, on a registry     *)
(* whose wallets come from the directory and go by Remove                  *)

NextLookup ==
    \/ NewService
    \/ ScanAheadWalletAddresses
    \/ Encrypt
    \/ NewAddresses
    \/ UpdateWalletLabel
    \/ GetAddresses
    \/ GetWallet
    \/ CreateAndSignTransaction
    \/ Remove
    \/ ReloadWallets
    \/ Return

SpecLookup == Init /\ [][NextLookup]_vars

----------------------------------------------------------------------------
(* Properties *)

SeedFirstAddr(seed) == FirstAddr(GenerateAddresses(NewWallet("", seed, ""), 1).w)

IsPrefix(s, t) == Len(s) <= Len(t) /\ SubSeq(t, 1, Len(s)) = s

HasEntries(m, id) == Len(m[id].Entries) > 0

SameFirstAddr(m, i, j) ==
    HasEntries(m, i) /\ HasEntries(m, j) /\ FirstAddr(m[i]) = FirstAddr(m[j])

\* C1: no two wallets of the registry have the same first address, in every
\* state reachable by the registry operations.
C1_UniqueFirstAddress ==
    \A i, j \in DOMAIN wallets : i # j => ~SameFirstAddr(wallets, i, j)

\* C1 witness: a reload has run over a directory in which two files share a
\* first address, and kept a wallet of it.
C1_Witness ==
    /\ res.op = "ReloadWallets" /\ res.err = "nil"
    /\ \E i, j \in DOMAIN disk : i # j /\ SameFirstAddr(disk, i, j) /\ i \in DOMAIN wallets

\* C2: create_wallet with a seed whose first address is that of a wallet of the
\* registry fails as a duplicate naming that wallet, and changes neither the
\* wallets, nor the index, nor the files.
C2_DuplicateCreateRejected ==
    [][(res'.op = "CreateWallet" /\ res.op = "none")
         => \A id \in DOMAIN wallets :
               (HasEntries(wallets, id) /\ FirstAddr(wallets[id]) = SeedFirstAddr(res'.seed))
                 => /\ res'.err = "Duplicate"
                    /\ res'.dup = id
                    /\ wallets' = wallets
                    /\ Cardinality(DOMAIN wallets') = Cardinality(DOMAIN wallets)
                    /\ firstAddrIDMap' = firstAddrIDMap
                    /\ disk' = disk /\ bak' = bak]_vars

\* C2 witness: a create_wallet was rejected as a duplicate of a wallet that is
\* in the registry.
C2_Witness ==
    /\ res.op = "CreateWallet" /\ res.err = "Duplicate"
    /\ res.dup \in DOMAIN wallets
    /\ FirstAddr(wallets[res.dup]) = SeedFirstAddr(res.seed)

\* C3: when the encryption primitive fails during encrypt, get_wallet(id)
\* returns after the call the wallet it returned before the call.
C3_EncryptAllOrNothing ==
    [][(res'.op = "Encrypt" /\ res'.err = "EncryptFailed")
         => getWallet(wallets', res'.id) = getWallet(wallets, res'.id)]_vars

SecretsLocked(w) ==
    /\ IsEncrypted(w)
    /\ \A i \in 1..Len(w.Entries) :
          w.Entries[i].Secret = 0 /\ w.Entries[i].EncryptedSeckey # EmptyBlob

\* C4: after a successful encrypt the returned wallet and the stored wallet are
\* encrypted, every entry's plaintext secret is the zero value and its
\* encrypted secret is not empty.
C4_EncryptLocksSecrets ==
    (res.op = "Encrypt" /\ res.err = "nil")
       => /\ Len(res.ret) = 1 /\ SecretsLocked(res.ret[1])
          /\ res.id \in DOMAIN wallets /\ SecretsLocked(getWallet(wallets, res.id))

\* C4 witness: an encrypt of a wallet with several entries has succeeded.
C4_Witness ==
    /\ res.op = "Encrypt" /\ res.err = "nil"
    /\ Len(wallets[res.id].Entries) >= 2

\* C5: a create_wallet whose save fails returns the error and leaves the wallets
\* and the index as before; the seed's first address is not registered.
C5_CreateSaveFailureRollsBack ==
    [][(res'.op = "CreateWallet" /\ res'.err = "SaveFailed")
         => /\ GetWallets(wallets') = GetWallets(wallets)
            /\ firstAddrIDMap' = firstAddrIDMap
            /\ SeedFirstAddr(res'.seed) \notin DOMAIN firstAddrIDMap'
            /\ disk' = disk]_vars

\* C5 witness: a create_wallet has failed on the save
C5_Witness == res.op = "CreateWallet" /\ res.err = "SaveFailed"

\* C6: when the save fails in new_addresses, update_label or
\* scan_ahead_addresses, the wallets, the index and the files are as before.
C6_SaveFailureLeavesStateUnchanged ==
    [][(/\ res'.op \in {"NewAddresses", "UpdateWalletLabel", "ScanAheadWalletAddresses"}
        /\ res'.err = "SaveFailed")
         => /\ GetWallets(wallets') = GetWallets(wallets)
            /\ firstAddrIDMap' = firstAddrIDMap
            /\ disk' = disk]_vars

BothCreated(p, q) ==
    /\ p # q
    /\ calls[p].st = "returned" /\ calls[p].res.err = "nil"
    /\ calls[q].st = "returned" /\ calls[q].res.err = "nil"
    /\ calls[p].seed # calls[q].seed

IndexedAndPresent(p) ==
    LET id == calls[p].res.id
        addr == SeedFirstAddr(calls[p].seed)
    IN /\ id \in DOMAIN GetWallets(wallets)
       /\ FirstAddr(GetWallets(wallets)[id]) = addr
       /\ addr \in DOMAIN firstAddrIDMap
       /\ firstAddrIDMap[addr] = id

Min(a, b) == IF a <= b THEN a ELSE b

\* C7: two create_wallet calls with distinct seeds that both succeeded leave
\* both wallets in get_wallets() and one index entry for each: two entries more
\* than before the first of them.
C7_ConcurrentCreatesBothPresent ==
    \A p, q \in Procs :
       BothCreated(p, q)
         => /\ IndexedAndPresent(p)
            /\ IndexedAndPresent(q)
            /\ calls[p].res.id # calls[q].res.id
            /\ Cardinality(DOMAIN firstAddrIDMap) = Min(calls[p].n0, calls[q].n0) + 2

\* C7 witness: both calls succeeded, and one was waiting for the lock when the
\* other took it.
C7_Witness ==
    \E p, q \in Procs : BothCreated(p, q) /\ calls[p].conc

ScanStep == res.op = "none" /\ res'.op = "ScanAheadWalletAddresses" /\ res'.id \in DOMAIN wallets

EntriesBefore == wallets[res'.id].Entries

EntriesAfter == wallets'[res'.id].Entries

\* C8 as stated: the entry list before a scan-ahead is a prefix of the list
\* after it; the length is unchanged when no candidate has a positive balance,
\* and otherwise the list ends at the highest candidate with a positive balance.
C8_ScanExtendsToEvidence ==
    [][ScanStep
         => /\ res'.id \in DOMAIN wallets'
            /\ IsPrefix(EntriesBefore, EntriesAfter)
            /\ res'.bal = {} => Len(EntriesAfter) = Len(EntriesBefore)
            /\ res'.bal # {} => Len(EntriesAfter) = Len(EntriesBefore) + SetMax(res'.bal)]_vars

\* C8 amended: the entry list before a scan-ahead is a prefix of the list after
\* it; a call that fails leaves the list as it was; a call that succeeds leaves
\* the length unchanged when no candidate has a positive balance, and otherwise
\* ends the list at the highest candidate with a positive balance.
C8_ScanExtendsToEvidenceOnSuccess ==
    [][ScanStep
         => /\ res'.id \in DOMAIN wallets'
            /\ IsPrefix(EntriesBefore, EntriesAfter)
            /\ res'.err # "nil" => EntriesAfter = EntriesBefore
            /\ (res'.err = "nil" /\ res'.bal = {})
                 => Len(EntriesAfter) = Len(EntriesBefore)
            /\ (res'.err = "nil" /\ res'.bal # {})
                 => Len(EntriesAfter) = Len(EntriesBefore) + SetMax(res'.bal)]_vars

\* C8 witness: a scan-ahead over two candidates, of which only the first has a
\* positive balance, has succeeded and the wallet ends at that candidate.
C8_Witness ==
    /\ res.op = "ScanAheadWalletAddresses" /\ res.err = "nil"
    /\ res.n = 2 /\ res.bal = {1}
    /\ Len(wallets[res.id].Entries) = 2

\* The Deduplication Pass stated by its result: of the loaded wallets m, walked
\* in the given order, id survives iff it has entries, no wallet with its first
\* address has more entries, and none with as many entries comes before it.
Position(order, id) == CHOOSE i \in 1..Len(order) : order[i] = id

Survives(m, order, id) ==
    /\ HasEntries(m, id)
    /\ \A j \in DOMAIN m :
          (j # id /\ SameFirstAddr(m, id, j))
            => \/ Len(m[j].Entries) < Len(m[id].Entries)
               \/ /\ Len(m[j].Entries) = Len(m[id].Entries)
                  /\ Position(order, id) < Position(order, j)

Survivors(m, order) == {id \in DOMAIN m : Survives(m, order, id)}

DedupResult(ws, idx, m, order) ==
    /\ DOMAIN ws = Survivors(m, order)
    /\ \A id \in DOMAIN ws : ws[id] = m[id]
    /\ \A id \in DOMAIN m : ~HasEntries(m, id) => id \notin DOMAIN ws
    /\ \A i, j \in DOMAIN ws : i # j => ~SameFirstAddr(ws, i, j)
    /\ DOMAIN idx = {FirstAddr(m[id]) : id \in Survivors(m, order)}
    /\ \A id \in DOMAIN ws : idx[FirstAddr(ws[id])] = id

\* C9: for every iteration order the Deduplication Pass drops the wallets with
\* no entries, keeps for each first address the one wallet with the most
\* entries, the first processed among equals, and leaves the index pointing
\* at the wallets it kept.
C9_DedupKeepsLargestFirstSeen ==
    [][/\ (res.op = "none" /\ res'.op = "ReloadWallets" /\ res'.err = "nil")
            => DedupResult(wallets', firstAddrIDMap', disk, res'.order)
       /\ (res'.op = "NewService" /\ phase' = "running" /\ ~disableWalletAPI'
             /\ Survivors(disk, res'.order) # {})
            => DedupResult(wallets', firstAddrIDMap', disk, res'.order)]_vars

\* C9 witness: a reload over three files of one first address, one with fewer
\* entries and two with the most; the pass kept the one of these two that it
\* processed first.
C9_Witness ==
    /\ res.op = "ReloadWallets" /\ res.err = "nil"
    /\ \E i, j, k \in DOMAIN disk :
          /\ SameFirstAddr(disk, i, j) /\ SameFirstAddr(disk, j, k)
          /\ Len(disk[i].Entries) < Len(disk[j].Entries)
          /\ Len(disk[j].Entries) = Len(disk[k].Entries)
          /\ Position(res.order, i) < Position(res.order, k)
          /\ Position(res.order, k) < Position(res.order, j)
          /\ DOMAIN wallets = {k}

MutatingOps ==
    {"CreateWallet", "ReloadWallets", "Encrypt", "NewAddresses",
     "ScanAheadWalletAddresses", "UpdateWalletLabel"}

\* C10: in a registry constructed disabled, every mutating or loading operation
\* fails with ApiDisabled, and no filesystem operation is ever made.
C10_DisabledRejectsEverything ==
    disableWalletAPI
      => /\ ~fsTouched
         /\ res.op \in MutatingOps => res.err = "ApiDisabled"

\* get_addresses(id) as a caller sees it over the wallets ws
get_addresses(ws, id) == GetAddressesOp(St(ws, EmptyMap, EmptyMap, {}, FALSE), id).res.ret

Range(s) == {s[i] : i \in 1..Len(s)}

\* C11: a new_addresses(id, n) that succeeds on a wallet with k entries returns
\* exactly n addresses, none of them among the k original ones, and afterwards
\* get_addresses(id) is the k original addresses in their order followed by
\* the n returned addresses in the order they were generated.
C11_NewAddressesAppends ==
    [][(res.op = "none" /\ res'.op = "NewAddresses" /\ res'.err = "nil")
         => /\ Len(res'.ret) = res'.n
            /\ Range(res'.ret) \cap Range(get_addresses(wallets, res'.id)) = {}
            /\ Cardinality(Range(res'.ret)) = res'.n
            /\ get_addresses(wallets', res'.id)
                  = get_addresses(wallets, res'.id) \o res'.ret
            /\ \A j \in 1..(Len(res'.ret) - 1) : res'.ret[j] < res'.ret[j + 1]]_vars

\* C11 witness: new_addresses(id, 3) has succeeded and the wallet, which had
\* one entry, has four.
C11_Witness ==
    /\ res.op = "NewAddresses" /\ res.err = "nil"
    /\ res.n = 3 /\ Len(res.ret) = 3
    /\ Len(get_addresses(wallets, res.id)) = 4

\* C12: when an enabled registry is constructed over a directory of which no
\* wallet is left after deduplication (no file, or only files without entries),
\* the registry holds exactly one wallet, labeled "Your Wallet", with exactly
\* one address, saved in the directory, and the index holds its first address.
C12_FreshRegistryHasDefaultWallet ==
    [][(/\ res'.op = "NewService" /\ phase' = "running" /\ ~disableWalletAPI'
        /\ Survivors(disk, res'.order) = {})
         => \E id \in DOMAIN GetWallets(wallets') :
               /\ DOMAIN GetWallets(wallets') = {id}
               /\ wallets'[id].Label = "Your Wallet"
               /\ Len(get_addresses(wallets', id)) = 1
               /\ id \in DOMAIN disk' /\ disk'[id] = wallets'[id]
               /\ DOMAIN firstAddrIDMap' = {FirstAddr(wallets'[id])}
               /\ firstAddrIDMap'[FirstAddr(wallets'[id])] = id]_vars

\* C12 witness: a registry was constructed over a directory that holds files,
\* all of them without entries, and has one wallet.
C12_Witness ==
    /\ res.op = "NewService" /\ phase = "running" /\ ~disableWalletAPI
    /\ Cardinality(DOMAIN disk) > 1
    /\ \E id \in DOMAIN disk : id # res.id /\ ~HasEntries(disk, id)
    /\ \A id \in DOMAIN disk : id # res.id => ~HasEntries(disk, id)
    /\ DOMAIN wallets = {res.id}

FirstAddrs(ws) == {FirstAddr(ws[id]) : id \in DOMAIN ws}

\* C13: in every state of an enabled registry the keys of the first-address
\* index are exactly the first addresses of the wallets in the registry, and
\* each key maps to the id of the wallet that has this first address.
C13_IndexMatchesLiveWallets ==
    (phase = "running" /\ ~disableWalletAPI)
      => /\ \A id \in DOMAIN wallets : HasEntries(wallets, id)
         /\ DOMAIN firstAddrIDMap = FirstAddrs(wallets)
         /\ \A id \in DOMAIN wallets : firstAddrIDMap[FirstAddr(wallets[id])] = id

ByIdOps ==
    {"ScanAheadWalletAddresses", "Encrypt", "NewAddresses", "GetAddresses",
     "GetWallet", "UpdateWalletLabel", "CreateAndSignTransaction"}

C15_EncryptFailureRestores ==
    [][(res.op = "none" /\ res'.op = "Encrypt" /\ res'.id \in DOMAIN wallets)
         => /\ res'.err \in {"SaveFailed", "RemoveFailed"}
                 => /\ res'.id \in DOMAIN wallets'
                    /\ getWallet(wallets', res'.id) = getWallet(wallets, res'.id)
                    /\ disk' = disk
                    /\ bak' = bak
            /\ res'.id \notin bak => res'.err # "RemoveFailed"]_vars

\* C16: remove(id) deletes id from the wallets and changes neither the index
\* nor the files; no operation other than reload_wallets drops or changes an
\* index entry; so a create_wallet whose seed gives the first address of a
\* removed wallet, still in the index, fails as a duplicate naming the removed
\* id and changes nothing.
C16_RemoveLeavesIndexStale ==
    [][/\ res'.op = "Remove"
            => /\ wallets' = [x \in (DOMAIN wallets) \ {res'.id} |-> wallets[x]]
               /\ firstAddrIDMap' = firstAddrIDMap
               /\ disk' = disk /\ bak' = bak /\ fsTouched' = fsTouched
       /\ (phase = "running" /\ res'.op # "ReloadWallets")
            => \A addr \in DOMAIN firstAddrIDMap :
                  addr \in DOMAIN firstAddrIDMap' /\ firstAddrIDMap'[addr] = firstAddrIDMap[addr]
       /\ (/\ res.op = "none" /\ res'.op = "CreateWallet"
           /\ SeedFirstAddr(res'.seed) \in DOMAIN firstAddrIDMap
           /\ firstAddrIDMap[SeedFirstAddr(res'.seed)] \notin DOMAIN wallets)
            => /\ res'.err = "Duplicate"
               /\ res'.dup = firstAddrIDMap[SeedFirstAddr(res'.seed)]
               /\ wallets' = wallets /\ firstAddrIDMap' = firstAddrIDMap
               /\ disk' = disk]_vars

\* C16 witness: a create_wallet has failed as a duplicate of a wallet that is no
\* longer in the registry, under the name the removed wallet had.
C16_Witness ==
    /\ res.op = "CreateWallet" /\ res.err = "Duplicate"
    /\ res.dup \notin DOMAIN wallets
    /\ res.id = res.dup
    /\ firstAddrIDMap[SeedFirstAddr(res.seed)] = res.dup

\* C17: after a reload_wallets that succeeds, the wallets are the result of the
\* Deduplication Pass over the files of the directory and the index holds
\* exactly the first addresses of these wallets, whatever the wallets and the
\* index held before; a reload_wallets whose load fails returns the error and
\* leaves the wallets and the index as they were.
C17_ReloadReplacesWholesale ==
    [][(res.op = "none" /\ res'.op = "ReloadWallets")
         => /\ res'.err = "nil"
                 => /\ DedupResult(wallets', firstAddrIDMap', disk, res'.order)
                    /\ DOMAIN firstAddrIDMap' = FirstAddrs(wallets')
                    /\ \A addr \in DOMAIN firstAddrIDMap' :
                          /\ firstAddrIDMap'[addr] \in DOMAIN wallets'
                          /\ FirstAddr(wallets'[firstAddrIDMap'[addr]]) = addr
                    /\ disk' = disk
            /\ res'.err # "nil"
                 => /\ res'.err \in {"LoadFailed", "ApiDisabled"}
                    /\ res'.err = "ApiDisabled" <=> disableWalletAPI
                    /\ wallets' = wallets
                    /\ firstAddrIDMap' = firstAddrIDMap
                    /\ disk' = disk]_vars

\* C17 witness: a reload_wallets has succeeded over a directory of two files and
\* left a registry of two wallets.
C17_Witness ==
    /\ res.op = "ReloadWallets" /\ res.err = "nil"
    /\ Cardinality(DOMAIN disk) = 2
    /\ DOMAIN wallets = DOMAIN disk

ReadStep(p) == calls[p].st = "rlocked" /\ calls'[p].st = "read"

BodyStep(p) == InBody(p) /\ calls'[p] # calls[p]

\* C18: a mutating handler is in its body exactly while it holds the exclusive
\* lock and a reading handler only while it holds the shared lock; while a
\* mutating handler is in its body no other handler is in its body or takes a
\* step of it; and a reading handler reads only when no mutating handler
\* stands between its first and its last write.
C18_LockingDiscipline ==
    /\ [](\A p \in Procs :
            /\ InExclusive(p) <=> lock = p
            /\ (InBody(p) /\ calls[p].op \in WriteOps) => InExclusive(p)
            /\ (InBody(p) /\ calls[p].op \in ReadOps) => (p \in Readers /\ lock = NoProc)
            /\ InExclusive(p) => \A q \in Others(p) : ~InBody(q))
    /\ [][\A p \in Procs :
            /\ BodyStep(p) => \A q \in Others(p) : ~InExclusive(q)
            /\ ReadStep(p) => \A q \in Procs : calls[q].st # "written"]_vars

\* C18 witness: an encrypt stands between its first write (the version) and its
\* remaining writes, and a get_wallet of the same wallet waits for the lock.
C18_Witness ==
    \E p \in Procs : \E q \in Others(p) :
       /\ calls[p].op = "Encrypt" /\ calls[p].st = "written"
       /\ calls[p].loc.res.err = "nil"
       /\ calls[p].name \in DOMAIN wallets
       /\ wallets[calls[p].name] # calls[p].loc.st.wallets[calls[p].name]
       /\ calls[q].op = "GetWallet" /\ calls[q].st = "called"
       /\ calls[q].name = calls[p].name

SameSeedCreates(p, q) ==
    /\ p # q
    /\ calls[p].op = "CreateWallet" /\ calls[q].op = "CreateWallet"
    /\ calls[p].st = "returned" /\ calls[q].st = "returned"
    /\ calls[p].seed = calls[q].seed
    /\ ~disableWalletAPI

Errs(p, q) == {calls[p].res.err, calls[q].res.err}

OneWins(p, q) ==
    \E w \in {p, q} : \E l \in {p, q} \ {w} :
       /\ calls[w].res.err = "nil"
       /\ calls[l].res.err = "Duplicate"
       /\ calls[l].res.dup = calls[w].res.id

\* C19 as stated: of two create_wallet calls with the same seed on an enabled
\* registry at most one succeeds, and if no save fails exactly one succeeds and
\* the other fails as a duplicate naming the wallet the first one created.
C19_SameSeedOneWins ==
    \A p, q \in Procs :
       SameSeedCreates(p, q)
         => /\ Errs(p, q) # {"nil"}
            /\ "SaveFailed" \notin Errs(p, q) => OneWins(p, q)

\* C19 amended: of two create_wallet calls with the same seed on an enabled
\* registry at most one succeeds; if the seed's first address was not in the
\* index before them, and neither call fails in the save or because its name
\* is in use, exactly one succeeds and the other fails as a duplicate naming
\* the wallet the first one created.
C19_SameSeedOneWinsWhenFresh ==
    \A p, q \in Procs :
       SameSeedCreates(p, q)
         => /\ Errs(p, q) # {"nil"}
            /\ (/\ calls[p].fresh \/ calls[q].fresh
                /\ Errs(p, q) \cap {"SaveFailed", "AddFailed"} = {})
                 => OneWins(p, q)

\* C19 witness: two create_wallet calls with the same seed have returned, one
\* was waiting for the lock when the other took it, one has created the wallet
\* and the other was refused as its duplicate.
C19_Witness ==
    \E p, q \in Procs :
       SameSeedCreates(p, q) /\ calls[p].conc /\ calls[p].fresh /\ calls[q].fresh
         /\ OneWins(p, q)

GrowingOps ==
    {"NewAddresses", "ScanAheadWalletAddresses", "Encrypt", "UpdateWalletLabel"}

\* C20: in every state every wallet of the registry has at least one entry; the
\* first address of a wallet is the same after every step that leaves the
\* wallet in the registry; and after new_addresses, scan_ahead_addresses,
\* encrypt and update_label the addresses a wallet had are a prefix of those
\* it has.
C20_FirstEntryStable ==
    /\ [](\A id \in DOMAIN wallets : Len(wallets[id].Entries) >= 1)
    /\ [][/\ (\A id \in (DOMAIN wallets) \cap (DOMAIN wallets') :
                 FirstAddr(wallets'[id]) = FirstAddr(wallets[id]))
           /\ res'.op \in GrowingOps
                => /\ DOMAIN wallets' = DOMAIN wallets
                   /\ (\A w \in DOMAIN wallets :
                         IsPrefix(get_addresses(wallets, w), get_addresses(wallets', w)))]_vars

\* C20 witness: a reload has dropped a file without entries and kept a wallet,
\* which has two entries.
C20_Witness ==
    /\ res.op = "ReloadWallets" /\ res.err = "nil"
    /\ \E id \in (DOMAIN disk) \ (DOMAIN wallets) : ~HasEntries(disk, id)
    /\ \E id \in DOMAIN wallets : Len(wallets[id].Entries) = 2

====
